---- MODULE Spec2Model ----
(***************************************************************************)
(* backend/app.py of zapmoda: a Flask application with a permissive CORS   *)
(* policy and the single view /status, started with app.run on             *)
(* 0.0.0.0:10000 when the module is the main script.                       *)
(*                                                                         *)
(* The module's statements are the steps of the start-up (pc); once the    *)
(* development server is serving, requests arrive, are answered by the     *)
(* WSGI application (URL matching, the view, the after_request hook of     *)
(* flask_cors) and the answers are sent, any number of them in flight at   *)
(* the same time (the development server is threaded).                     *)
(***************************************************************************)
EXTENDS Bags, FiniteSets, Integers, Sequences, TLC

VARIABLES
    pc,           \* the statement of app.py the interpreter is at
    name,         \* the module's __name__
    environ,      \* os.environ of the process
    argv,         \* sys.argv[1:] of the process
    portInUse,    \* whether another process already listens on the port
    url_map,      \* app.url_map: the sequence of registered rules
    after_request_funcs, \* app.after_request_funcs
    cors_options, \* the options flask_cors parsed for the application
    socket,       \* the listening socket: <<>> or <<[host, port]>>
    exitcode,     \* <<>> while the process lives, <<code>> once it ended
    inflight      \* the bag of exchanges accepted and not yet sent

vars == <<pc, name, environ, argv, portInUse, url_map,
          after_request_funcs, cors_options, socket, exitcode, inflight>>

(***************************************************************************)
(* Bounds and input sets.                                                  *)
(***************************************************************************)
MaxInFlight == 2

Port == 10000

Host == "0.0.0.0"

None == "<None>"

Methods == {"GET", "HEAD", "OPTIONS", "POST", "PUT", "DELETE", "PATCH"}

\* A path is the sequence of its segments after the leading slash:
\* "/" is <<"">>, "/status" is <<"status">>, "/status/" is <<"status", "">>.
Paths == { <<"">>, <<"status">>, <<"status", "">>, <<"static", "logo.png">> }

Origins == {None, "https://loja.example"}

Queries == {"", "v=2"}

Bodies == {"", "{\"message\": \"x\"}"}

\* Every method on every path. The Origin header varies on the methods a
\* browser sends across origins without and with a preflight (GET, POST,
\* OPTIONS), on every path; the query string and the body vary on
\* GET /status.
Requests ==
    { r \in [method : Methods, path : Paths, query : Queries,
             body : Bodies, origin : Origins] :
        /\ (r.query # "" \/ r.body # "")
            => (r.method = "GET" /\ r.path = <<"status">>)
        /\ r.origin # None => r.method \in {"GET", "POST", "OPTIONS"} }

FileNames == {"logo.png"}

\* How the process is launched: its environment and its arguments.
Launches ==
    { [environ |-> [FLASK_RUN_FROM_CLI |-> None, PORT |-> None],
       argv |-> <<>>],
      [environ |-> [FLASK_RUN_FROM_CLI |-> None, PORT |-> "8080"],
       argv |-> <<"--host=127.0.0.1", "--port=8080">>],
      [environ |-> [FLASK_RUN_FROM_CLI |-> "true", PORT |-> None],
       argv |-> <<>>] }

(***************************************************************************)
(* jsonify: the JSON text of a dict, as its sequence of tokens, and the    *)
(* parse of such a text back to the set of its key/value pairs.            *)
(***************************************************************************)
RECURSIVE dumps_items(_)
dumps_items(items) ==
    IF items = <<>> THEN <<>>
    ELSE <<items[1][1], ":", items[1][2]>>
         \o (IF Len(items) > 1 THEN <<",">> ELSE <<>>)
         \o dumps_items(Tail(items))

dumps(items) == <<"{">> \o dumps_items(items) \o <<"}">>

loads(tokens) ==
    { <<tokens[i - 1], tokens[i + 1]>> :
        i \in { j \in 2..(Len(tokens) - 1) : tokens[j] = ":" } }

Response(status, mimetype, data) ==
    [status |-> status, mimetype |-> mimetype, data |-> data,
     allow |-> {}, acao |-> None]

jsonify(items) == Response(200, "application/json", dumps(items))

\* Faulty variant of status: the message is empty.
status_empty == jsonify(<< <<"message", "">> >>)

\* Faulty variant of status: the view refuses while another exchange is in
\* flight.
status_busy ==
    IF BagCardinality(inflight) > 1
    THEN Response(503, "text/html", <<"503 Service Unavailable">>)
    ELSE jsonify(<< <<"message", "Backend rodando com sucesso!">> >>)

\* def status(): return jsonify({'message': 'Backend rodando com sucesso!'})
status == jsonify(<< <<"message", "Backend rodando com sucesso!">> >>)

(***************************************************************************)
(* Flask(__name__) and @app.route: the rules of the URL map.               *)
(***************************************************************************)
PathConverter == "<path:filename>"

\* Faulty variant of Rule: HEAD is not added to a rule that allows GET.
Rule_exact(parts, endpoint, methods) ==
    [rule |-> parts, endpoint |-> endpoint,
     methods |-> methods \cup {"OPTIONS"},
     provide_automatic_options |-> "OPTIONS" \notin methods]

\* werkzeug's Rule: a rule that allows GET allows HEAD too; Flask's
\* add_url_rule adds OPTIONS and answers it itself
\* (provide_automatic_options).
Rule(parts, endpoint, methods) ==
    [rule |-> parts, endpoint |-> endpoint,
     methods |-> methods
                 \cup (IF "GET" \in methods THEN {"HEAD"} ELSE {})
                 \cup {"OPTIONS"},
     provide_automatic_options |-> "OPTIONS" \notin methods]

\* Flask.__init__: static_folder defaults to "static", so the rule
\* /static/<path:filename> is added when the application is created.
StaticRule == Rule(<<"static", PathConverter>>, "static", {"GET"})

\* Faulty variant of StatusRule: the route accepts the writing methods too.
StatusRule_any ==
    [rule |-> <<"status">>, endpoint |-> "status",
     methods |-> {"GET", "HEAD", "OPTIONS", "POST", "PUT", "DELETE", "PATCH"},
     provide_automatic_options |-> TRUE]

\* @app.route('/status'): no methods given, so GET.
StatusRule == Rule(<<"status">>, "status", {"GET"})

\* Faulty variant of parts_match: a rule matches every path that starts
\* with its first part.
parts_match_prefix(rparts, pparts) ==
    rparts # <<>> /\ pparts # <<>> /\ pparts[1] = rparts[1]

\* Whether a rule's parts match a path's segments: a plain part matches the
\* equal segment, the path converter matches the non-empty rest. A rule with
\* no trailing slash does not match the path with one (strict_slashes).
RECURSIVE parts_match(_, _)
parts_match(rparts, pparts) ==
    IF rparts = <<>> THEN pparts = <<>>
    ELSE IF pparts = <<>> THEN FALSE
    ELSE IF rparts[1] = PathConverter THEN pparts[1] # ""
    ELSE pparts[1] = rparts[1] /\ parts_match(Tail(rparts), Tail(pparts))

rules_for(path) ==
    { i \in 1..Len(url_map) : parts_match(url_map[i].rule, path) }

\* MapAdapter.allowed_methods: the methods of the rules matching the path.
allowed_methods(path) ==
    UNION { url_map[i].methods : i \in rules_for(path) }

\* MapAdapter.match: the first rule matching path and method; else
\* MethodNotAllowed when a rule matches the path alone; else NotFound.
match(path, method) ==
    LET hits == { i \in rules_for(path) : method \in url_map[i].methods } IN
    IF hits # {}
    THEN [kind |-> "rule",
          rule |-> url_map[CHOOSE i \in hits : \A j \in hits : i <= j]]
    ELSE IF rules_for(path) # {}
    THEN [kind |-> "MethodNotAllowed"]
    ELSE [kind |-> "NotFound"]

(***************************************************************************)
(* The views and the framework's own answers.                              *)
(***************************************************************************)
NotFound == Response(404, "text/html", <<"404 Not Found">>)

MethodNotAllowed(valid_methods) ==
    [Response(405, "text/html", <<"405 Method Not Allowed">>)
        EXCEPT !.allow = valid_methods]

\* Flask.make_default_options_response
make_default_options_response(path) ==
    [Response(200, "text/html", <<>>) EXCEPT !.allow = allowed_methods(path)]

\* Flask.send_static_file -> send_from_directory: NotFound unless the file
\* is in the static folder (files: what the folder holds at that moment).
send_static_file(filename, files) ==
    IF filename \in files
    THEN Response(200, "application/octet-stream", <<"file", filename>>)
    ELSE NotFound

\* Faulty variant of view_functions: the status view parses the body and
\* the query string of the request.
view_functions_args(endpoint, req, files) ==
    IF endpoint = "status"
    THEN IF req.body # "" \/ req.query # ""
         THEN Response(400, "text/html", <<"400 Bad Request">>)
         ELSE status
    ELSE send_static_file(req.path[Len(req.path)], files)

view_functions(endpoint, req, files) ==
    IF endpoint = "status" THEN status
    ELSE send_static_file(req.path[Len(req.path)], files)

\* Flask.dispatch_request, with the HTTP errors raised by the routing turned
\* into their responses (handle_user_exception).
dispatch_request(req, files) ==
    LET m == match(req.path, req.method) IN
    IF m.kind = "NotFound" THEN NotFound
    ELSE IF m.kind = "MethodNotAllowed"
    THEN MethodNotAllowed(allowed_methods(req.path))
    ELSE IF m.rule.provide_automatic_options /\ req.method = "OPTIONS"
    THEN make_default_options_response(req.path)
    ELSE view_functions(m.rule.endpoint, req, files)

(***************************************************************************)
(* flask_cors: CORS(app) with its defaults.                                *)
(***************************************************************************)
DefaultCorsOptions ==
    [resources |-> "/*", origins |-> "*", send_wildcard |-> FALSE,
     always_send |-> TRUE, supports_credentials |-> FALSE]

\* flask_cors.core.get_cors_origins: the value of
\* Access-Control-Allow-Origin, or None for no header.
get_cors_origins(options, request_origin) ==
    LET wildcard == options.origins = "*" IN
    IF request_origin # None
    THEN IF wildcard /\ options.send_wildcard THEN "*"
         ELSE IF wildcard \/ options.origins = request_origin
         THEN request_origin
         ELSE None
    ELSE IF options.always_send
    THEN IF wildcard
         THEN IF options.supports_credentials THEN None ELSE "*"
         ELSE options.origins
    ELSE None

\* The resources pattern r"/*" is matched with re.match against the path:
\* zero or more slashes at its start, which every path has.
resource_matches(pattern, path) == pattern = "/*"

\* Faulty variant of cors_after_request: error answers get no header.
cors_after_request_ok(options, req, resp) ==
    IF resp.acao # None \/ resp.status >= 400 THEN resp
    ELSE IF resource_matches(options.resources, req.path)
    THEN [resp EXCEPT !.acao = get_cors_origins(options, req.origin)]
    ELSE resp

\* flask_cors.extension.cors_after_request
cors_after_request(options, req, resp) ==
    IF resp.acao # None THEN resp
    ELSE IF resource_matches(options.resources, req.path)
    THEN [resp EXCEPT !.acao = get_cors_origins(options, req.origin)]
    ELSE resp

\* Flask.process_response: the after_request functions, in turn.
RECURSIVE process_response(_, _, _)
process_response(funcs, req, resp) ==
    IF funcs = <<>> THEN resp
    ELSE process_response(Tail(funcs), req,
            IF Head(funcs) = "cors_after_request"
            THEN cors_after_request(cors_options[1], req, resp)
            ELSE resp)

\* Flask.wsgi_app: dispatch, the after_request functions, and the body left
\* out of the answer to a HEAD request.
wsgi_app(req, files) ==
    LET resp == process_response(after_request_funcs, req,
                                 dispatch_request(req, files)) IN
    IF req.method = "HEAD" THEN [resp EXCEPT !.data = <<>>] ELSE resp

(***************************************************************************)
(* The process: the statements of app.py, then the server's exchanges.     *)
(***************************************************************************)
Init ==
    /\ pc = "L4"
    /\ name \in {"__main__", "app"}
    /\ \E l \in Launches : environ = l.environ /\ argv = l.argv
    /\ portInUse \in BOOLEAN
    /\ url_map = <<>>
    /\ after_request_funcs = <<>>
    /\ cors_options = <<>>
    /\ socket = <<>>
    /\ exitcode = <<>>
    /\ inflight = EmptyBag

world == <<name, environ, argv, portInUse>>

\* line 4: app = Flask(__name__)
CreateApp ==
    /\ pc = "L4"
    /\ url_map' = <<StaticRule>>
    /\ pc' = "L5"
    /\ UNCHANGED <<world, after_request_funcs, cors_options, socket,
                   exitcode, inflight>>

\* line 5: CORS(app)
InitCORS ==
    /\ pc = "L5"
    /\ cors_options' = <<DefaultCorsOptions>>
    /\ after_request_funcs' = Append(after_request_funcs, "cors_after_request")
    /\ pc' = "L7"
    /\ UNCHANGED <<world, url_map, socket, exitcode, inflight>>

\* lines 7-9: @app.route('/status') def status()
RouteStatus ==
    /\ pc = "L7"
    /\ url_map' = Append(url_map, StatusRule)
    /\ pc' = "L11"
    /\ UNCHANGED <<world, after_request_funcs, cors_options, socket,
                   exitcode, inflight>>

\* Faulty variant of MainGuard: app.run is called without the guard.
MainGuard_missing ==
    /\ pc = "L11"
    /\ pc' = "L12"
    /\ UNCHANGED <<world, url_map, after_request_funcs, cors_options, socket,
                   exitcode, inflight>>

\* line 11: if __name__ == '__main__'; an imported module ends here.
MainGuard ==
    /\ pc = "L11"
    /\ pc' = IF name = "__main__" THEN "L12" ELSE "imported"
    /\ UNCHANGED <<world, url_map, after_request_funcs, cors_options, socket,
                   exitcode, inflight>>

\* Flask.run returns at once under the flask command line
\* (FLASK_RUN_FROM_CLI), and the script ends.
run_ignored == environ.FLASK_RUN_FROM_CLI = "true"

\* line 12: app.run(host='0.0.0.0', port=10000), ignored
RunIgnored ==
    /\ pc = "L12"
    /\ run_ignored
    /\ pc' = "exited"
    /\ exitcode' = <<0>>
    /\ UNCHANGED <<world, url_map, after_request_funcs, cors_options, socket,
                   inflight>>

\* line 12: the bind fails (OSError: address in use), werkzeug exits with 1
RunBindFails ==
    /\ pc = "L12"
    /\ ~run_ignored
    /\ portInUse
    /\ pc' = "exited"
    /\ exitcode' = <<1>>
    /\ UNCHANGED <<world, url_map, after_request_funcs, cors_options, socket,
                   inflight>>

\* Faulty variant of bind_address: the port is taken from $PORT when set.
bind_address_env ==
    [host |-> Host, port |-> IF environ.PORT = None THEN Port ELSE 8080]

\* The address app.run binds: its arguments, whatever the environment and
\* the command line hold.
bind_address == [host |-> Host, port |-> Port]

\* line 12: the socket is bound and serve_forever begins
RunServe ==
    /\ pc = "L12"
    /\ ~run_ignored
    /\ ~portInUse
    /\ socket' = <<bind_address>>
    /\ pc' = "serving"
    /\ UNCHANGED <<world, url_map, after_request_funcs, cors_options,
                   exitcode, inflight>>

Exchange(req, resp) == [req |-> req, resp |-> resp]

\* The server accepts a request; its thread has not run the application yet.
Receive(req) ==
    /\ pc = "serving"
    /\ BagCardinality(inflight) < MaxInFlight
    /\ inflight' = inflight (+) SetToBag({Exchange(req, <<>>)})
    /\ UNCHANGED <<pc, world, url_map, after_request_funcs, cors_options,
                   socket, exitcode>>

\* Faulty variant of Handle: an error answer ends the server.
Handle_fatal(e) ==
    /\ pc = "serving"
    /\ e.resp = <<>>
    /\ \E files \in SUBSET FileNames :
         LET resp == wsgi_app(e.req, files) IN
         /\ inflight' = (inflight (-) SetToBag({e}))
                        (+) SetToBag({Exchange(e.req, <<resp>>)})
         /\ pc' = IF resp.status >= 400 THEN "exited" ELSE pc
         /\ exitcode' = IF resp.status >= 400 THEN <<1>> ELSE exitcode
    /\ UNCHANGED <<world, url_map, after_request_funcs, cors_options,
                   socket>>

\* A request's thread runs the WSGI application, with the static folder
\* holding whatever files it holds then.
Handle(e) ==
    /\ pc = "serving"
    /\ e.resp = <<>>
    /\ \E files \in SUBSET FileNames :
         inflight' = (inflight (-) SetToBag({e}))
                     (+) SetToBag({Exchange(e.req, <<wsgi_app(e.req, files)>>)})
    /\ UNCHANGED <<pc, world, url_map, after_request_funcs, cors_options,
                   socket, exitcode>>

\* The answer is written to the client and the exchange is over.
Send(e) ==
    /\ pc = "serving"
    /\ e.resp # <<>>
    /\ inflight' = inflight (-) SetToBag({e})
    /\ UNCHANGED <<pc, world, url_map, after_request_funcs, cors_options,
                   socket, exitcode>>

Next ==
    \/ CreateApp
    \/ InitCORS
    \/ RouteStatus
    \/ MainGuard
    \/ RunIgnored
    \/ RunBindFails
    \/ RunServe
    \/ \E req \in Requests : Receive(req)
    \/ \E e \in BagToSet(inflight) : Handle(e)
    \/ \E e \in BagToSet(inflight) : Send(e)

Spec == Init /\ [][Next]_vars

(***************************************************************************)
(* Vocabulary of the properties.                                           *)
(***************************************************************************)
StatusPath == <<"status">>

StaticPath == <<"static", "logo.png">>

SuccessMessage == "Backend rodando com sucesso!"

\* The exchanges in flight whose request has been answered by the
\* application (the answer is about to be sent).
Answered == { e \in BagToSet(inflight) : e.resp # <<>> }

IsGetStatus(req) == req.method = "GET" /\ req.path = StatusPath

\* What a client reads of an answer apart from the CORS header.
Core(resp) == <<resp.status, resp.mimetype, resp.data>>

\* The (method, path) pairs the application hands to a view function.
DispatchPairs ==
    { mp \in Methods \X Paths :
        LET m == match(mp[2], mp[1]) IN
        /\ m.kind = "rule"
        /\ ~(m.rule.provide_automatic_options /\ mp[1] = "OPTIONS") }

Installed ==
    /\ url_map = <<StaticRule, StatusRule>>
    /\ cors_options = <<DefaultCorsOptions>>
    /\ after_request_funcs = <<"cors_after_request">>

(***************************************************************************)
(* C1: every GET /status is answered 200 with content type                 *)
(* application/json and the JSON object whose single key message holds the *)
(* non-empty text "Backend rodando com sucesso!", the same on every call,  *)
(* whatever else the server has handled or is handling.                    *)
(***************************************************************************)
C1_StatusAnswer ==
    \A e \in Answered :
        IsGetStatus(e.req) =>
            /\ e.resp[1].status = 200
            /\ e.resp[1].mimetype = "application/json"
            /\ loads(e.resp[1].data) = { <<"message", SuccessMessage>> }
            /\ e.resp[1].data = <<"{", "message", ":", SuccessMessage, "}">>
            /\ SuccessMessage # ""

C1_Witness ==
    /\ \E e \in Answered : IsGetStatus(e.req) /\ e.resp[1].status = 200
    /\ \E e \in Answered : ~IsGetStatus(e.req) /\ e.resp[1].status = 404

(***************************************************************************)
(* C2 as stated: every request to /status with a method other than GET     *)
(* (POST, DELETE, PUT, PATCH, HEAD, OPTIONS) is answered with a status     *)
(* other than 200.                                                         *)
(***************************************************************************)
C2_Original ==
    \A e \in Answered :
        (e.req.path = StatusPath /\ e.req.method # "GET")
            => e.resp[1].status # 200

(***************************************************************************)
(* C2 amended: POST, PUT, DELETE and PATCH on /status are answered 405     *)
(* with Allow: GET, HEAD, OPTIONS; HEAD is answered 200 as GET is but      *)
(* without a body, and OPTIONS is answered 200 by the framework with the   *)
(* same Allow header and no body.                                          *)
(***************************************************************************)
C2_Amended ==
    \A e \in Answered :
        e.req.path = StatusPath =>
            /\ e.req.method \in {"POST", "PUT", "DELETE", "PATCH"}
                => /\ e.resp[1].status = 405
                   /\ e.resp[1].allow = {"GET", "HEAD", "OPTIONS"}
            /\ e.req.method = "HEAD"
                => /\ e.resp[1].status = 200
                   /\ e.resp[1].mimetype = "application/json"
                   /\ e.resp[1].data = <<>>
            /\ e.req.method = "OPTIONS"
                => /\ e.resp[1].status = 200
                   /\ e.resp[1].allow = {"GET", "HEAD", "OPTIONS"}
                   /\ e.resp[1].data = <<>>

C2_Witness ==
    /\ \E e \in Answered : /\ e.req.path = StatusPath
                           /\ e.req.method = "DELETE"
                           /\ e.resp[1].status = 405
    /\ \E e \in Answered : /\ e.req.path = StatusPath
                           /\ e.req.method = "HEAD"
                           /\ e.resp[1].status = 200

(***************************************************************************)
(* C3 as stated: every request whose path is not exactly /status           *)
(* (/, /status/, /static/<name>, ...) is answered 404, whatever its method.*)
(***************************************************************************)
C3_Original ==
    \A e \in Answered :
        e.req.path # StatusPath => e.resp[1].status = 404

(***************************************************************************)
(* C3 amended: every request whose path matches no rule of the URL map     *)
(* (neither /status nor /static/<name>: /, /status/, ...) is answered 404, *)
(* whatever its method. On /static/<name>, GET and HEAD are answered 404   *)
(* when the static folder holds no such file and 200 when it does, OPTIONS *)
(* is answered 200 and every other method 405.                             *)
(***************************************************************************)
C3_Amended ==
    \A e \in Answered :
        /\ e.req.path \notin {StatusPath, StaticPath}
            => e.resp[1].status = 404
        /\ e.req.path = StaticPath =>
            /\ e.req.method \in {"GET", "HEAD"}
                => e.resp[1].status \in {200, 404}
            /\ e.req.method = "OPTIONS" => e.resp[1].status = 200
            /\ e.req.method \in {"POST", "PUT", "DELETE", "PATCH"}
                => e.resp[1].status = 405

C3_Witness ==
    /\ \E e \in Answered : /\ e.req.path = <<"status", "">>
                           /\ e.req.method = "GET"
                           /\ e.resp[1].status = 404
    /\ \E e \in Answered : /\ e.req.path = StaticPath
                           /\ e.req.method = "POST"
                           /\ e.resp[1].status = 405

(***************************************************************************)
(* C4: every answer of the application, on every path, for every method    *)
(* and with every status (200, 404, 405), carries                          *)
(* Access-Control-Allow-Origin: the wildcard when the request had no       *)
(* Origin header, the request's own origin (whichever it is) when it had   *)
(* one. The policy is the application's: one after_request function over   *)
(* the resources /*, set before any route is registered.                   *)
(***************************************************************************)
C4_CorsOnEveryAnswer ==
    /\ \A e \in Answered :
        /\ e.resp[1].acao # None
        /\ e.req.origin = None => e.resp[1].acao = "*"
        /\ e.req.origin # None => e.resp[1].acao = e.req.origin
    /\ pc = "serving" =>
        /\ after_request_funcs = <<"cors_after_request">>
        /\ cors_options[1].resources = "/*"
        /\ cors_options[1].origins = "*"

C4_Witness ==
    /\ \E e \in Answered : /\ e.resp[1].status = 405
                           /\ e.req.origin # None
                           /\ e.resp[1].acao = e.req.origin
    /\ \E e \in Answered : /\ e.resp[1].status = 404
                           /\ e.req.origin = None
                           /\ e.resp[1].acao = "*"

(***************************************************************************)
(* C5: GET /status requests in flight at the same time, answered in any    *)
(* order, are each answered 200, and requests that are alike get answers   *)
(* that are alike in every field: no answer depends on what else is in     *)
(* flight.                                                                 *)
(***************************************************************************)
C5_ConcurrentStatus ==
    \A e1 \in Answered : \A e2 \in Answered :
        (IsGetStatus(e1.req) /\ IsGetStatus(e2.req)) =>
            /\ e1.resp[1].status = 200
            /\ e2.resp[1].status = 200
            /\ Core(e1.resp[1]) = Core(e2.resp[1])
            /\ e1.req.origin = e2.req.origin => e1.resp = e2.resp

\* All the exchanges the bound allows are GET /status, answered and not yet
\* sent, two of them the same request.
C5_Witness ==
    /\ BagCardinality(inflight) = MaxInFlight
    /\ \A e \in BagToSet(inflight) : IsGetStatus(e.req) /\ e.resp # <<>>
    /\ \E e \in BagToSet(inflight) : CopiesIn(e, inflight) >= 2

(***************************************************************************)
(* C6 as stated: the (method, path) pairs the application hands to a       *)
(* handler are (GET, /status) and nothing else.                            *)
(***************************************************************************)
C6_Original ==
    pc = "serving" => DispatchPairs = { <<"GET", StatusPath>> }

(***************************************************************************)
(* C6 amended: app.py registers one route, /status, and the URL map holds  *)
(* it after the rule /static/<path:filename> that Flask adds itself; both  *)
(* allow GET, HEAD and OPTIONS. The pairs handed to a view are GET and     *)
(* HEAD on /status (the view status) and GET and HEAD on /static/<name>    *)
(* (Flask's static view); OPTIONS on them is answered by the framework.    *)
(***************************************************************************)
C6_Amended ==
    pc \in {"L11", "L12", "serving", "imported", "exited"} =>
        /\ Len(url_map) = 2
        /\ url_map[1].rule = <<"static", PathConverter>>
        /\ url_map[1].endpoint = "static"
        /\ url_map[2].rule = StatusPath
        /\ url_map[2].endpoint = "status"
        /\ \A i \in 1..2 : url_map[i].methods = {"GET", "HEAD", "OPTIONS"}
        /\ DispatchPairs = {"GET", "HEAD"} \X {StatusPath, StaticPath}

C6_Witness ==
    /\ pc = "serving"
    /\ <<"GET", StatusPath>> \in DispatchPairs
    /\ \E e \in Answered : IsGetStatus(e.req)

(***************************************************************************)
(* C7: the answer to GET /status does not depend on the query string, the  *)
(* body or the Origin header of the request: any two such requests get the *)
(* same status, content type and body, and never an error status.          *)
(***************************************************************************)
C7_InputsIgnored ==
    \A e1 \in Answered : \A e2 \in Answered :
        (IsGetStatus(e1.req) /\ IsGetStatus(e2.req)) =>
            /\ e1.resp[1].status = e2.resp[1].status
            /\ e1.resp[1].mimetype = e2.resp[1].mimetype
            /\ e1.resp[1].data = e2.resp[1].data
            /\ e1.resp[1].status \notin 400..599

C7_Witness ==
    \E e1 \in Answered : \E e2 \in Answered :
        /\ IsGetStatus(e1.req) /\ IsGetStatus(e2.req)
        /\ e1.req.query # e2.req.query
        /\ e1.req.body # e2.req.body
        /\ e1.req.origin # e2.req.origin
        /\ e1.resp[1].data = e2.resp[1].data

C10_ImportDoesNotServe ==
    /\ socket # <<>> => name = "__main__"
    /\ name # "__main__" =>
        /\ pc \in {"L4", "L5", "L7", "L11", "imported"}
        /\ socket = <<>>
        /\ exitcode = <<>>
        /\ inflight = EmptyBag
    /\ pc = "imported" => Installed
    \* the order: the application, then CORS, then the route
    /\ cors_options # <<>> => url_map # <<>>
    /\ (\E i \in 1..Len(url_map) : url_map[i].endpoint = "status")
        => (cors_options # <<>> /\ after_request_funcs # <<>>)

C10_Witness ==
    /\ name = "app"
    /\ pc = "imported"
    /\ Installed
    /\ socket = <<>>

====
